---- MODULE Spec2Model ----
(***************************************************************************)
(* Model of samples/opensource/sampleMobileNetINT8API/opt_mobilenet_onnx.py *)
(* : the graph surgery of optimize_quantized_mobilenet, statement by        *)
(* statement, and the precondition checks of main.                          *)
(*                                                                          *)
(* An ONNX graph is a record of four sequences (node, initializer, input,   *)
(* output).  Nodes are records compared by value, as protobuf messages are. *)
(***************************************************************************)
EXTENDS Integers, Sequences, FiniteSets, TLC

VARIABLES
    topIsDir,             \* path.isdir('./Quantized MobileNet')
    fs,                   \* file system: file name -> graph, or NoFile
    pc,                   \* position of the control flow
    entry,                \* "none", "main" (script run) or "call" (function called directly)
    runs,                 \* number of invocations of optimize_quantized_mobilenet so far
    name_in, name_out,    \* arguments of the current invocation
    model,                \* the local variable model (model.graph), or NoModel
    tail,                 \* the list nodes[-3:] the for loop iterates over
    k,                    \* index of the next element of tail
    gemm_weights_name, gemm_bias_name, avgpool_output_name,
    err,                  \* the exception that ended the run: [type, at], or NoErr
    loaded,               \* history: the graph as read by onnx.load in this invocation
    optimized,            \* history: the graph returned by optimizer.optimize
    written,              \* history: names of the files written by the current invocation
    produced,             \* history: names of files that hold the result of a successful run
    fromProduced          \* history: the current invocation reads a file of produced

vars == <<topIsDir, fs, pc, entry, runs, name_in, name_out, model, tail, k,
          gemm_weights_name, gemm_bias_name, avgpool_output_name, err,
          loaded, optimized, written, produced, fromProduced>>

MaxRuns == 2

\* no graph object (the four fields of a graph, all empty)
NoModel == [node |-> <<>>, initializer |-> <<>>, input |-> <<>>, output |-> <<>>]
\* a file of the file system: absent, or an ONNX file holding a graph
NoFile == [exists |-> FALSE, graph |-> NoModel]
File(g) == [exists |-> TRUE, graph |-> g]
NoErr == [type |-> "none", at |-> "none"]
NoName == "?"

top == "./Quantized MobileNet"
onnx_file_in == "./Quantized MobileNet/mobilenet_sym_no_bn.onnx"
onnx_file_out == "mobilenet_quantized_opt.onnx"
Files == {onnx_file_in, onnx_file_out}

-----------------------------------------------------------------------------
(* Graph objects *)

Node(op, nm, ins, outs, pads) ==
    [op_type |-> op, name |-> nm, input |-> ins, output |-> outs,
     pads |-> pads, kernel_shape |-> <<>>, strides |-> <<>>]

Tensor(nm, dims) == [name |-> nm, dims |-> dims, data |-> nm]

Graph(ns, inits, ins, outs) ==
    [node |-> ns, initializer |-> inits, input |-> ins, output |-> outs]

Last(s) == s[Len(s)]

\* s[-n:] of a Python sequence
LastN(s, n) == IF Len(s) <= n THEN s ELSE SubSeq(s, Len(s) - n + 1, Len(s))

\* s[:-n] of a Python sequence
ButLastN(s, n) == IF Len(s) <= n THEN <<>> ELSE SubSeq(s, 1, Len(s) - n)

RemoveAt(s, i) == SubSeq(s, 1, i - 1) \o SubSeq(s, i + 1, Len(s))

\* container.remove(elem): removes the first element equal to elem
RemoveFirst(s, e) ==
    LET i == CHOOSE j \in 1..Len(s) : s[j] = e /\ \A h \in 1..(j - 1) : s[h] # e
    IN  RemoveAt(s, i)

-----------------------------------------------------------------------------
(* optimizer.optimize(model, ['eliminate_nop_pad']) *)

IsNopPad(n) ==
    /\ n.op_type = "Pad"
    /\ n.pads # <<>>
    /\ \A i \in DOMAIN n.pads : n.pads[i] = 0

Rename(names, from, to) ==
    [i \in DOMAIN names |-> IF names[i] = from THEN to ELSE names[i]]

ReplaceAllUsesWith(ns, from, to) ==
    [i \in DOMAIN ns |-> [ns[i] EXCEPT !.input = Rename(@, from, to)]]

RECURSIVE EliminateNopPad(_)
EliminateNopPad(ns) ==
    IF \E i \in DOMAIN ns : IsNopPad(ns[i])
    THEN LET i == CHOOSE j \in DOMAIN ns :
                     IsNopPad(ns[j]) /\ \A h \in 1..(j - 1) : ~IsNopPad(ns[h])
         IN  EliminateNopPad(ReplaceAllUsesWith(RemoveAt(ns, i),
                                                ns[i].output[1], ns[i].input[1]))
    ELSE ns

\* variant: the pass list is empty, the model comes back as it was
optimize_nothing(g) == g

optimize(g) == [g EXCEPT !.node = EliminateNopPad(@)]

-----------------------------------------------------------------------------
(* Constants of optimize_quantized_mobilenet *)

expected_inputs_dict == [Constant |-> 0, Reshape |-> 2, Gemm |-> 3]

last_conv_name == "last_conv_fc"

\* variant: the replacement node keeps the op type of the node it replaces
make_node_gemm(ins, outs) ==
    [op_type |-> "Gemm", name |-> last_conv_name, input |-> ins, output |-> outs,
     pads |-> <<0, 0, 0, 0>>, kernel_shape |-> <<1, 1>>, strides |-> <<1, 1>>]

make_node(ins, outs) ==
    [op_type |-> "Conv", name |-> last_conv_name, input |-> ins, output |-> outs,
     pads |-> <<0, 0, 0, 0>>, kernel_shape |-> <<1, 1>>, strides |-> <<1, 1>>]

-----------------------------------------------------------------------------
(* Input graphs: the tail of the quantized MobileNetV1 graph                *)
(*   Conv -> Pad -> AveragePool -> Constant -> Reshape -> Gemm              *)
(* and the graphs that differ from it in the Pad node, in one of the last   *)
(* three nodes, in the initializer list or in the declared outputs.         *)

NoAttr == <<>>
ZeroPads == <<0, 0, 0, 0>>
SomePads == <<0, 1, 0, 1>>

ConvNode == Node("Conv", "conv0", <<"x">>, <<"c0">>, NoAttr)
PadNode(pads) == Node("Pad", "pad0", <<"c0">>, <<"pd">>, pads)
PoolNode(in) == Node("AveragePool", "pool0", <<in>>, <<"ap">>, NoAttr)
ConstNode == Node("Constant", "const0", <<>>, <<"sh">>, NoAttr)
ReshapeNode == Node("Reshape", "reshape0", <<"ap", "sh">>, <<"rs">>, NoAttr)
GemmNode == Node("Gemm", "fc", <<"rs", "w", "b">>, <<"y">>, NoAttr)

Prefixes ==
    { <<ConvNode, PadNode(ZeroPads), PoolNode("pd")>>,
      <<ConvNode, PadNode(SomePads), PoolNode("pd")>>,
      <<ConvNode, PoolNode("c0")>>,
      <<>> }

ThirdLast ==
    { ConstNode,
      Node("Constant", "const0", <<"ap">>, <<"sh">>, NoAttr),
      Node("Constant", "const0", <<>>, <<"sh", "sh2">>, NoAttr),
      Node("Gemm", "fc0", <<"ap", "w", "b">>, <<"sh">>, NoAttr),
      Node("Relu", "relu0", <<"ap">>, <<"sh">>, NoAttr) }

SecondLast ==
    { ReshapeNode,
      Node("Reshape", "reshape0", <<"c0", "sh">>, <<"rs">>, NoAttr),
      Node("Reshape", "reshape0", <<"ap">>, <<"rs">>, NoAttr),
      Node("Reshape", "reshape0", <<"ap", "sh">>, <<>>, NoAttr),
      Node("Gemm", "fc1", <<"sh", "w", "b">>, <<"rs">>, NoAttr),
      Node("Flatten", "flatten0", <<"ap">>, <<"rs">>, NoAttr) }

LastNodes ==
    { GemmNode,
      Node("Gemm", "fc", <<"rs", "w">>, <<"y">>, NoAttr),
      Node("Gemm", "fc", <<"rs", "w", "sh">>, <<"y">>, NoAttr),
      Node("Gemm", "fc", <<"rs", "w", "b">>, <<"y", "y2">>, NoAttr),
      Node("Softmax", "prob", <<"rs">>, <<"y">>, NoAttr) }

W == Tensor("w", <<1000, 1024>>)
B == Tensor("b", <<1000>>)
E == Tensor("e", <<1>>)

Initializers == { <<W, B>>, <<B, W>>, <<W>>, <<E, W, B>> }

Outputs == { <<"y">>, <<"ap", "y">>, <<>> }

\* graphs that the product below does not contain
SpecialGraphs ==
    { \* no node at all
      Graph(<<>>, <<W, B>>, <<"x">>, <<"y">>),
      \* two nodes only
      Graph(<<ReshapeNode, GemmNode>>, <<W, B>>, <<"x">>, <<"y">>),
      \* a no-op Pad among the last three nodes
      Graph(<<ConvNode, PoolNode("c0"), ConstNode, ReshapeNode,
              Node("Pad", "pad1", <<"rs">>, <<"pd1">>, ZeroPads),
              Node("Gemm", "fc", <<"pd1", "w", "b">>, <<"y">>, NoAttr)>>,
            <<W, B>>, <<"x">>, <<"y">>),
      \* the Constant node occurs twice (not in SSA form)
      Graph(<<ConstNode, ConvNode, PoolNode("c0"), ConstNode, ReshapeNode, GemmNode>>,
            <<W, B>>, <<"x">>, <<"y">>) }

InputGraphs ==
    { Graph(p \o <<a, b, c>>, i, <<"x">>, o) :
        p \in Prefixes, a \in ThirdLast, b \in SecondLast, c \in LastNodes,
        i \in Initializers, o \in Outputs }
    \cup SpecialGraphs

-----------------------------------------------------------------------------
(* State after the interpreter has started, before main or a direct call *)

Init ==
    /\ topIsDir \in BOOLEAN
    /\ \E file \in {File(g) : g \in InputGraphs} \cup {NoFile} :
          /\ (file.exists => topIsDir)
          /\ fs = [f \in Files |-> IF f = onnx_file_in THEN file ELSE NoFile]
    /\ pc = "idle"
    /\ entry = "none"
    /\ runs = 0
    /\ name_in = NoName
    /\ name_out = NoName
    /\ model = NoModel
    /\ tail = <<>>
    /\ k = 0
    /\ gemm_weights_name = NoName
    /\ gemm_bias_name = NoName
    /\ avgpool_output_name = NoName
    /\ err = NoErr
    /\ loaded = NoModel
    /\ optimized = NoModel
    /\ written = {}
    /\ produced = {}
    /\ fromProduced = FALSE

locals == <<model, tail, k, gemm_weights_name, gemm_bias_name, avgpool_output_name>>
history == <<loaded, optimized, written, produced, fromProduced>>

\* an exception leaves the function (and main): nothing else changes
Raise(type, at) ==
    /\ pc' = "raised"
    /\ err' = [type |-> type, at |-> at]

\* entering optimize_quantized_mobilenet(ni, no)
Enter(ni, no) ==
    /\ pc' = "load"
    /\ runs' = runs + 1
    /\ name_in' = ni
    /\ name_out' = no
    /\ model' = NoModel
    /\ tail' = <<>>
    /\ k' = 0
    /\ gemm_weights_name' = NoName
    /\ gemm_bias_name' = NoName
    /\ avgpool_output_name' = NoName
    /\ err' = NoErr
    /\ loaded' = NoModel
    /\ optimized' = NoModel
    /\ written' = {}
    /\ fromProduced' = (ni \in produced)
    /\ UNCHANGED <<topIsDir, fs, produced>>

-----------------------------------------------------------------------------
(* main *)

main_isdir ==
    /\ pc = "idle"
    /\ entry' = "main"
    /\ IF ~topIsDir
       THEN Raise("RuntimeError", "isdir")
       ELSE /\ pc' = "main_isfile"
            /\ UNCHANGED err
    /\ UNCHANGED <<topIsDir, fs, runs, name_in, name_out, locals, history>>

\* variant: main without the path.isfile check
main_isfile_unchecked ==
    /\ pc = "main_isfile"
    /\ Enter(onnx_file_in, onnx_file_out)
    /\ UNCHANGED entry

main_isfile ==
    /\ pc = "main_isfile"
    /\ IF ~fs[onnx_file_in].exists
       THEN /\ Raise("RuntimeError", "isfile")
            /\ UNCHANGED <<topIsDir, fs, runs, name_in, name_out, locals, history>>
       ELSE Enter(onnx_file_in, onnx_file_out)
    /\ UNCHANGED entry

\* optimize_quantized_mobilenet called by an importing program
Call(ni, no) ==
    /\ pc \in {"idle", "done"}
    /\ runs < MaxRuns
    /\ entry' = "call"
    /\ Enter(ni, no)

-----------------------------------------------------------------------------
(* optimize_quantized_mobilenet, one action per statement *)

\* model = onnx.load(name_in)
Load ==
    /\ pc = "load"
    /\ IF ~fs[name_in].exists
       THEN /\ Raise("FileNotFoundError", "load")
            /\ UNCHANGED <<model, loaded>>
       ELSE /\ model' = fs[name_in].graph
            /\ loaded' = fs[name_in].graph
            /\ pc' = "optimize"
            /\ UNCHANGED err
    /\ UNCHANGED <<topIsDir, fs, entry, runs, name_in, name_out, tail, k,
                   gemm_weights_name, gemm_bias_name, avgpool_output_name,
                   optimized, written, produced, fromProduced>>

\* model = optimizer.optimize(model, ['eliminate_nop_pad'])
Optimize ==
    /\ pc = "optimize"
    /\ model' = optimize(model)
    /\ optimized' = optimize(model)
    /\ pc' = "check_gemm"
    /\ UNCHANGED <<topIsDir, fs, entry, runs, name_in, name_out, tail, k,
                   gemm_weights_name, gemm_bias_name, avgpool_output_name, err,
                   loaded, written, produced, fromProduced>>

\* assert nodes[-1].op_type == 'Gemm'; _, w, b = nodes[-1].input; nodes[-3:]
CheckGemm ==
    /\ pc = "check_gemm"
    /\ LET nodes == model.node IN
       IF Len(nodes) = 0
       THEN /\ Raise("IndexError", "nodes[-1]")
            /\ UNCHANGED <<gemm_weights_name, gemm_bias_name, tail, k>>
       ELSE IF Last(nodes).op_type # "Gemm"
       THEN /\ Raise("AssertionError", "Expected a Gemm node as the last one in the graph.")
            /\ UNCHANGED <<gemm_weights_name, gemm_bias_name, tail, k>>
       ELSE IF Len(Last(nodes).input) # 3
       THEN /\ Raise("ValueError", "unpack nodes[-1].input")
            /\ UNCHANGED <<gemm_weights_name, gemm_bias_name, tail, k>>
       ELSE /\ gemm_weights_name' = Last(nodes).input[2]
            /\ gemm_bias_name' = Last(nodes).input[3]
            /\ tail' = LastN(nodes, 3)
            /\ k' = 1
            /\ pc' = "loop"
            /\ UNCHANGED err
    /\ UNCHANGED <<topIsDir, fs, entry, runs, name_in, name_out, model,
                   avgpool_output_name, history>>

\* one iteration of: for removable_node in nodes[-3:]
RemoveNode ==
    /\ pc = "loop"
    /\ LET removable_node == tail[k] IN
       IF removable_node.op_type \notin DOMAIN expected_inputs_dict
       THEN /\ Raise("KeyError", "expected_inputs_dict")
            /\ UNCHANGED <<model, k>>
       ELSE IF Len(removable_node.input) # expected_inputs_dict[removable_node.op_type]
       THEN /\ Raise("AssertionError", "Expected exactly n input(s)")
            /\ UNCHANGED <<model, k>>
       ELSE IF Len(removable_node.output) # 1
       THEN /\ Raise("AssertionError", "Expected exactly one output")
            /\ UNCHANGED <<model, k>>
       ELSE /\ model' = [model EXCEPT !.node = RemoveFirst(@, removable_node)]
            /\ k' = k + 1
            /\ pc' = IF k = Len(tail) THEN "avgpool" ELSE "loop"
            /\ UNCHANGED err
    /\ UNCHANGED <<topIsDir, fs, entry, runs, name_in, name_out, tail,
                   gemm_weights_name, gemm_bias_name, avgpool_output_name, history>>

\* avgpool_output_name = model.graph.node[-1].output[0]
StoreAvgpoolOutput ==
    /\ pc = "avgpool"
    /\ IF Len(model.node) = 0
       THEN /\ Raise("IndexError", "node[-1]")
            /\ UNCHANGED avgpool_output_name
       ELSE IF Len(Last(model.node).output) = 0
       THEN /\ Raise("IndexError", "output[0]")
            /\ UNCHANGED avgpool_output_name
       ELSE /\ avgpool_output_name' = Last(model.node).output[1]
            /\ pc' = "weights"
            /\ UNCHANGED err
    /\ UNCHANGED <<topIsDir, fs, entry, runs, name_in, name_out, model, tail, k,
                   gemm_weights_name, gemm_bias_name, history>>

\* variant: one trailing dimension only
ExtendDims_one(t) == [t EXCEPT !.dims = @ \o <<1>>]

\* dims.extend([1, 1])
ExtendDims(t) == [t EXCEPT !.dims = @ \o <<1, 1>>]

\* assert initializer[-2].name == gemm_weights_name; initializer[-2].dims.extend([1, 1])
ExtendWeights ==
    /\ pc = "weights"
    /\ LET n == Len(model.initializer) IN
       IF n < 2
       THEN /\ Raise("IndexError", "initializer[-2]")
            /\ UNCHANGED model
       ELSE IF model.initializer[n - 1].name # gemm_weights_name
       THEN /\ Raise("AssertionError", "initializer[-2].name == gemm_weights_name")
            /\ UNCHANGED model
       ELSE /\ model' = [model EXCEPT !.initializer[n - 1] = ExtendDims(@)]
            /\ pc' = "conv"
            /\ UNCHANGED err
    /\ UNCHANGED <<topIsDir, fs, entry, runs, name_in, name_out, tail, k,
                   gemm_weights_name, gemm_bias_name, avgpool_output_name, history>>

\* the node built by onnx.helper.make_node from the names collected so far
last_conv_fc ==
    make_node(<<avgpool_output_name, gemm_weights_name, gemm_bias_name>>,
              <<model.output[1]>>)

\* model_output = model.graph.output[0]; ...; model.graph.node.extend([last_conv_fc])
AppendConv ==
    /\ pc = "conv"
    /\ IF Len(model.output) = 0
       THEN /\ Raise("IndexError", "graph.output[0]")
            /\ UNCHANGED model
       ELSE /\ model' = [model EXCEPT !.node = @ \o <<last_conv_fc>>]
            /\ pc' = "save"
            /\ UNCHANGED err
    /\ UNCHANGED <<topIsDir, fs, entry, runs, name_in, name_out, tail, k,
                   gemm_weights_name, gemm_bias_name, avgpool_output_name, history>>

\* variant: the model is saved over the file it was read from
Save_over_input ==
    /\ pc = "save"
    /\ fs' = [fs EXCEPT ![name_in] = File(model)]
    /\ written' = written \cup {name_in}
    /\ produced' = produced \cup {name_in}
    /\ pc' = "done"
    /\ UNCHANGED <<topIsDir, entry, runs, name_in, name_out, locals, err,
                   loaded, optimized, fromProduced>>

\* onnx.save(model, name_out)
Save ==
    /\ pc = "save"
    /\ fs' = [fs EXCEPT ![name_out] = File(model)]
    /\ written' = written \cup {name_out}
    /\ produced' = produced \cup {name_out}
    /\ pc' = "done"
    /\ UNCHANGED <<topIsDir, entry, runs, name_in, name_out, locals, err,
                   loaded, optimized, fromProduced>>

Next ==
    \/ main_isdir
    \/ main_isfile
    \/ \E ni \in Files, no \in Files : Call(ni, no)
    \/ Load
    \/ Optimize
    \/ CheckGemm
    \/ RemoveNode
    \/ StoreAvgpoolOutput
    \/ ExtendWeights
    \/ AppendConv
    \/ Save

Spec == Init /\ [][Next]_vars

-----------------------------------------------------------------------------
(* Vocabulary of the properties *)

Range(s) == {s[i] : i \in DOMAIN s}

\* the graph in the file a successful run has written
saved == fs[name_out].graph

GemmAssertion ==
    [type |-> "AssertionError", at |-> "Expected a Gemm node as the last one in the graph."]

\* index of the last AveragePool node of a node list, 0 if there is none
LastPoolIndex(ns) ==
    IF \E i \in DOMAIN ns : ns[i].op_type = "AveragePool"
    THEN CHOOSE i \in DOMAIN ns :
            /\ ns[i].op_type = "AveragePool"
            /\ \A j \in DOMAIN ns : ns[j].op_type = "AveragePool" => j <= i
    ELSE 0

\* a Pad node right before the last AveragePool node feeds it
HasPadBeforePool(ns) ==
    LET p == LastPoolIndex(ns) IN
    /\ p > 1
    /\ ns[p - 1].op_type = "Pad"
    /\ Len(ns[p - 1].output) = 1 /\ Len(ns[p - 1].input) >= 1
    /\ ns[p].input = ns[p - 1].output

PadBeforePool(ns) == ns[LastPoolIndex(ns) - 1]

\* the saved graph has no such Pad node, and the pool reads what the Pad read
PadGone(ns, sv) ==
    LET pool == ns[LastPoolIndex(ns)]
        pad == PadBeforePool(ns)
    IN  /\ \A n \in Range(sv) : ~(n.op_type = "Pad" /\ n.name = pad.name)
        /\ \E n \in Range(sv) :
              /\ n.op_type = "AveragePool"
              /\ n.name = pool.name
              /\ n.input = <<pad.input[1]>>

InitializerNames(g) == {g.initializer[i].name : i \in DOMAIN g.initializer}

\* every node input is a graph input, an initializer or an earlier node's output
TopologicallySorted(g) ==
    \A i \in DOMAIN g.node : \A t \in Range(g.node[i].input) :
        \/ t \in Range(g.input)
        \/ t \in InitializerNames(g)
        \/ \E j \in 1..(i - 1) : t \in Range(g.node[j].output)

\* number of (node, output position) pairs that produce tensor t
Producers(g, t) ==
    Cardinality({ij \in {<<i, j>> : i \in DOMAIN g.node, j \in 1..2} :
                    /\ ij[2] \in DOMAIN g.node[ij[1]].output
                    /\ g.node[ij[1]].output[ij[2]] = t})

AllOutputNames(g) == UNION {Range(g.node[i].output) : i \in DOMAIN g.node}

SingleAssignment(g) == \A t \in AllOutputNames(g) : Producers(g, t) = 1

\* a structural violation of the graph the checks look at
StructuralViolation(g) ==
    LET ns == g.node
        n == Len(g.initializer)
    IN  /\ Len(ns) > 0
        /\ \/ Last(ns).op_type # "Gemm"
           \/ \E r \in Range(LastN(ns, 3)) :
                 /\ r.op_type \in DOMAIN expected_inputs_dict
                 /\ \/ Len(r.input) # expected_inputs_dict[r.op_type]
                    \/ Len(r.output) # 1
           \/ /\ n >= 2
              /\ Len(Last(ns).input) >= 2
              /\ g.initializer[n - 1].name # Last(ns).input[2]

-----------------------------------------------------------------------------
(* Properties *)

\* C1: after a successful run the saved node list is the node list after pad
\* elimination without its last three nodes, followed by one new Conv node
\* named 'last_conv_fc'; the node count is (count after elimination) - 3 + 1.
C1_SavedNodeList ==
    pc = "done" =>
        /\ Len(saved.node) = Len(optimized.node) - 3 + 1
        /\ SubSeq(saved.node, 1, Len(saved.node) - 1) = ButLastN(optimized.node, 3)
        /\ Last(saved.node).op_type = "Conv"
        /\ Last(saved.node).name = "last_conv_fc"

\* C2: when a run reaches the save step, the three nodes taken off the end are
\* one Constant, one Reshape and one Gemm node, the Gemm being the last.
C2_RemovedAreConstantReshapeGemm ==
    pc \in {"save", "done"} =>
        /\ Len(tail) = 3
        /\ {tail[i].op_type : i \in DOMAIN tail} = {"Constant", "Reshape", "Gemm"}
        /\ tail[3].op_type = "Gemm"

C4_ConvReplacesChain ==
    pc = "done" =>
        \E r \in Range(tail) :
            /\ r.op_type = "Reshape"
            /\ Last(saved.node).input = <<r.input[1], Last(tail).input[2], Last(tail).input[3]>>
            /\ Last(saved.node).output = <<Last(tail).output[1]>>
            /\ Last(tail).output[1] = saved.output[1]

\* C5: a run on a graph with a structural violation (last node not a Gemm, a
\* wrong input or output count on one of the last three nodes, second-to-last
\* initializer not the Gemm weights) ends with an AssertionError.
C5_ViolationsAreAssertions ==
    (pc \in {"raised", "done"} /\ StructuralViolation(optimized)) =>
        (pc = "raised" /\ err.type = "AssertionError")

\* C6: main raises RuntimeError when the directory is missing, else raises
\* RuntimeError when the input file is missing, and calls
\* optimize_quantized_mobilenet only when both exist, once, with the fixed
\* input and output names; nothing is loaded before the checks have passed.
C6_MainChecksInOrder ==
    entry = "main" =>
        /\ ~topIsDir =>
              /\ pc = "raised"
              /\ err = [type |-> "RuntimeError", at |-> "isdir"]
        /\ (topIsDir /\ ~fs[onnx_file_in].exists) =>
              /\ pc \in {"main_isfile", "raised"}
              /\ pc = "raised" => err = [type |-> "RuntimeError", at |-> "isfile"]
        /\ runs = 0 => (model = NoModel /\ loaded = NoModel)
        /\ runs <= 1
        /\ runs = 1 =>
              /\ topIsDir
              /\ fs[onnx_file_in].exists
              /\ name_in = onnx_file_in
              /\ name_out = onnx_file_out
        /\ (topIsDir /\ fs[onnx_file_in].exists /\ pc # "main_isfile") => runs = 1

C6_Witness ==
    /\ entry = "main"
    /\ runs = 1
    /\ pc = "optimize"
    /\ loaded = fs[onnx_file_in].graph

\* C7: a successful run changes exactly one initializer, the second-to-last
\* one, named as the Gemm's weights input: [1, 1] is appended to its dims, its
\* name and data stay; all other initializers and the declared inputs and
\* outputs of the graph are as in the input file.
C7_OnlyWeightsDimsChange ==
    pc = "done" =>
        LET old == loaded.initializer
            new == saved.initializer
            n == Len(old)
        IN  /\ Len(new) = n
            /\ n >= 2
            /\ old[n - 1].name = Last(tail).input[2]
            /\ new[n - 1].name = old[n - 1].name
            /\ new[n - 1].data = old[n - 1].data
            /\ new[n - 1].dims = old[n - 1].dims \o <<1, 1>>
            /\ Len(new[n - 1].dims) = Len(old[n - 1].dims) + 2
            /\ \A i \in 1..n : i # n - 1 => new[i] = old[i]
            /\ saved.input = loaded.input
            /\ saved.output = loaded.output

C7_Witness ==
    /\ pc = "done"
    /\ Len(saved.initializer) = 3
    /\ saved.initializer[2].dims = <<1000, 1024, 1, 1>>

\* C8 as stated: a run that fails writes no file, and no run writes name_in.
C8_NeverWritesInput ==
    /\ pc = "raised" => written = {}
    /\ name_in \notin written

\* C8 amended: a run that fails writes no file, whatever it had removed from
\* the graph in memory; a file is written only by the last statement; and a
\* run whose name_out is another path than name_in never writes name_in.
C8_WrittenOnlyAtEnd ==
    /\ pc = "raised" => written = {}
    /\ pc # "done" => written = {}
    /\ written \subseteq {name_out}
    /\ name_in # name_out => name_in \notin written
    /\ (runs = 1 /\ pc # "done") => ~fs[onnx_file_out].exists
    /\ (runs = 1 /\ pc # "done" /\ pc # "load" /\ loaded # NoModel) =>
          fs[name_in] = File(loaded)
    /\ (runs = 1 /\ pc = "done" /\ name_in # name_out) => fs[name_in] = File(loaded)

C8_Witness ==
    /\ pc = "raised"
    /\ err.type = "AssertionError"
    /\ Len(model.node) < Len(optimized.node)
    /\ written = {}
    /\ ~fs[onnx_file_out].exists

\* C9: when the input graph is topologically sorted and in single-assignment
\* form, so is the graph a successful run saves, and its first declared
\* output is produced by exactly one node.
C9_ValidityPreserved ==
    (pc = "done" /\ TopologicallySorted(loaded) /\ SingleAssignment(loaded)) =>
        /\ TopologicallySorted(saved)
        /\ SingleAssignment(saved)
        /\ Producers(saved, saved.output[1]) = 1

\* C10: a run on a file that a successful run has produced ends at the
\* 'Expected a Gemm node' assertion; no node has been removed, no initializer
\* changed and no file written.
C10_SecondRunFailsAtGemm ==
    fromProduced =>
        /\ pc \in {"load", "optimize", "check_gemm", "raised"}
        /\ pc = "raised" =>
              /\ err = GemmAssertion
              /\ model = optimized
              /\ Last(model.node).op_type = "Conv"
              /\ written = {}
              /\ fs[name_in] = File(loaded)

C10_Witness ==
    /\ fromProduced
    /\ pc = "raised"
    /\ err = GemmAssertion
    /\ runs = 2

====
